---- MODULE Spec2Model ----
(***************************************************************************)
(* PodcastGPT: the streaming response engine (geminiService.ts,            *)
(* generateStreamingResponse) and the session controller (Index.tsx,       *)
(* handleSubmit) with the conversation store it drives.                    *)
(*                                                                         *)
(* Text is a sequence of characters.  A character is a one-element string; *)
(* the fixed pieces of a response record are single characters of the      *)
(* model:                                                                  *)
(*   "["   {"candidates":[{"content":{"parts":[{                           *)
(*   "T"   "text":"                                                        *)
(*   "]"   }]}}]}                                                          *)
(* so that  [ T a " ]  is the record whose text payload is  a.             *)
(***************************************************************************)
EXTENDS Integers, Sequences, FiniteSets, TLC

\* ------------------------------------------------------------------ bounds
MaxRecords == 2

\* -------------------------------------------------------------- characters
DQ == "\""
BS == "\\"
NL == "\n"
SP == " "
Letters == {"a", "b"}
Whitespace == {SP, NL}

\* The notice of geminiService.ts line 318, one fragment.
fallbackResponse == <<"FALLBACK">>

\* ---------------------------------------------------------- string helpers
\* String.prototype.substring(start): the characters from the 0-based index start,
\* start clamped to 0..length.
Substring(s, start) ==
  LET st == IF start < 0 THEN 0 ELSE IF start > Len(s) THEN Len(s) ELSE start
  IN  SubSeq(s, st + 1, Len(s))

\* String.prototype.indexOf(sub): the least 0-based index at which sub occurs, or -1.
IndexOf(s, sub) ==
  LET hits == {i \in 0..(Len(s) - Len(sub)) : SubSeq(s, i + 1, i + Len(sub)) = sub}
  IN  IF hits = {} THEN -1 ELSE CHOOSE i \in hits : \A j \in hits : i <= j

\* String.prototype.trim()
RECURSIVE TrimLeft(_)
TrimLeft(s) ==
  IF s # <<>> /\ Head(s) \in Whitespace THEN TrimLeft(Tail(s)) ELSE s

RECURSIVE TrimRight(_)
TrimRight(s) ==
  IF s # <<>> /\ s[Len(s)] \in Whitespace
  THEN TrimRight(SubSeq(s, 1, Len(s) - 1)) ELSE s

Trim(s) == TrimRight(TrimLeft(s))

\* fullJsonStr.split(/,?\n/): the pieces between the matches of "an optional comma,
\* then a newline", scanning left to right; cur is the piece being collected.
RECURSIVE SplitFrom(_, _, _)
SplitFrom(s, i, cur) ==
  IF i > Len(s) THEN <<cur>>
  ELSE IF s[i] = "," /\ i < Len(s) /\ s[i + 1] = NL
       THEN <<cur>> \o SplitFrom(s, i + 2, <<>>)
  ELSE IF s[i] = NL
       THEN <<cur>> \o SplitFrom(s, i + 1, <<>>)
  ELSE SplitFrom(s, i + 1, Append(cur, s[i]))

RECURSIVE FilterNonBlank(_)
FilterNonBlank(lines) ==
  IF lines = <<>> THEN <<>>
  ELSE IF Trim(Head(lines)) # <<>>
       THEN <<Head(lines)>> \o FilterNonBlank(Tail(lines))
       ELSE FilterNonBlank(Tail(lines))

\* line 259: fullJsonStr.split(/,?\n/).filter(line => line.trim())
SplitObjects(s) == FilterNonBlank(SplitFrom(s, 1, <<>>))

\* ----------------------------------------------------------------- JSON
\* The body of a JSON string: letters and the escape \" (a bare quote or a dangling
\* backslash makes it no string body), and its decoded value.
RECURSIVE IsStringBody(_)
IsStringBody(b) ==
  IF b = <<>> THEN TRUE
  ELSE IF Head(b) \in Letters THEN IsStringBody(Tail(b))
  ELSE IF Head(b) = BS /\ Len(b) >= 2 /\ b[2] = DQ
       THEN IsStringBody(SubSeq(b, 3, Len(b)))
  ELSE FALSE

RECURSIVE Unescape(_)
Unescape(b) ==
  IF b = <<>> THEN <<>>
  ELSE IF Head(b) = BS THEN <<DQ>> \o Unescape(SubSeq(b, 3, Len(b)))
  ELSE <<Head(b)>> \o Unescape(Tail(b))

\* JSON.parse(jsonStr) followed by the test of lines 270-274: TRUE with the text when
\* the string is one complete record whose candidates[0].content.parts[0].text is
\* truthy (a non-empty string); FALSE when JSON.parse throws or the text is absent
\* or empty.
ParseRecordText(jsonStr) ==
  LET n == Len(jsonStr)
      body == SubSeq(jsonStr, 3, n - 2)
  IN  IF /\ n >= 4
         /\ jsonStr[1] = "[" /\ jsonStr[2] = "T"
         /\ jsonStr[n - 1] = DQ /\ jsonStr[n] = "]"
         /\ IsStringBody(body)
         /\ Unescape(body) # <<>>
      THEN [ok |-> TRUE, text |-> Unescape(body)]
      ELSE [ok |-> FALSE, text |-> <<>>]

\* Line 267: JSON.parse(jsonStr) does not throw: the string is one complete record,
\* with or without a text field, the text empty or not.
Decodes(jsonStr) ==
  LET n == Len(jsonStr)
  IN  \/ jsonStr = <<"[", "]">>
      \/ /\ n >= 4
         /\ jsonStr[1] = "[" /\ jsonStr[2] = "T"
         /\ jsonStr[n - 1] = DQ /\ jsonStr[n] = "]"
         /\ IsStringBody(SubSeq(jsonStr, 3, n - 2))

\* A pass that emits but never advances the buffer past what it emitted.
RECURSIVE ProcessObjectsKeep(_, _, _, _)
ProcessObjectsKeep(buf, jsonObjects, i, out) ==
  IF i > Len(jsonObjects) THEN [buf |-> buf, out |-> out]
  ELSE LET parsed == ParseRecordText(Trim(jsonObjects[i]))
       IN  ProcessObjectsKeep(buf, jsonObjects, i + 1,
             IF parsed.ok THEN Append(out, parsed.text) ELSE out)

\* One pass of the for loop of lines 261-289 over jsonObjects, from index i on: buf is
\* fullJsonStr, out the texts handed to onChunk so far in this pass.
RECURSIVE ProcessObjects(_, _, _, _)
ProcessObjects(buf, jsonObjects, i, out) ==
  IF i > Len(jsonObjects) THEN [buf |-> buf, out |-> out]
  ELSE LET jsonStr == Trim(jsonObjects[i])
           parsed == ParseRecordText(jsonStr)
           processedLength ==
             Len(jsonStr) + (IF i < Len(jsonObjects) THEN 1 ELSE 0)
       IN  IF parsed.ok
           THEN ProcessObjects(
                  Substring(buf, IndexOf(buf, jsonStr) + processedLength),
                  jsonObjects, i + 1, Append(out, parsed.text))
           ELSE ProcessObjects(buf, jsonObjects, i + 1, out)

\* A pass over the new chunk alone, the earlier remainder left aside.
ProcessChunkAlone(fullJson, chunk) ==
  LET r == ProcessObjects(chunk, SplitObjects(chunk), 1, <<>>)
  IN  [buf |-> IF r.out = <<>> THEN fullJson \o chunk ELSE r.buf, out |-> r.out]

\* Lines 253-293: the buffer after appending a chunk and running one pass, and the
\* texts the pass hands to onChunk, in order.
ProcessChunk(fullJson, chunk) ==
  LET buf == fullJson \o chunk
  IN  ProcessObjects(buf, SplitObjects(buf), 1, <<>>)

\* Line 301: fullJsonStr.match(/"text"\s*:\s*"([^"]+)"/g), and lines 303-304 for each
\* match: the longest run of characters other than the double quote that follows
\* "text":" and is itself followed by a double quote; the scan goes on after it.
RECURSIVE RunEnd(_, _)
RunEnd(s, i) == IF i <= Len(s) /\ s[i] # DQ THEN RunEnd(s, i + 1) ELSE i

\* The match with ([^"]*) for ([^"]+): an empty value matches too.
RECURSIVE TextMatchesStar(_, _)
TextMatchesStar(s, i) ==
  IF i > Len(s) THEN <<>>
  ELSE IF s[i] = "T" /\ RunEnd(s, i + 1) <= Len(s)
       THEN <<SubSeq(s, i + 1, RunEnd(s, i + 1) - 1)>>
            \o TextMatchesStar(s, RunEnd(s, i + 1) + 1)
  ELSE TextMatchesStar(s, i + 1)

RECURSIVE TextMatches(_, _)
TextMatches(s, i) ==
  IF i > Len(s) THEN <<>>
  ELSE IF s[i] = "T"
       THEN LET e == RunEnd(s, i + 1)
            IN  IF e > i + 1 /\ e <= Len(s)
                THEN <<SubSeq(s, i + 1, e - 1)>> \o TextMatches(s, e + 1)
                ELSE TextMatches(s, i + 1)
  ELSE TextMatches(s, i + 1)

Flatten(texts) ==
  LET F[k \in 0..Len(texts)] == IF k = 0 THEN <<>> ELSE F[k - 1] \o texts[k]
  IN  F[Len(texts)]

\* The salvage pass runs whatever the parse loop has emitted.
SalvagedAlways(fullJson, respText) == TextMatches(fullJson, 1)

\* Lines 296-320, run when the reader signals done: the texts handed to onChunk by
\* the salvage pass and the fallback, given the buffer and responseText.
Salvaged(fullJson, respText) ==
  IF respText = <<>> THEN TextMatches(fullJson, 1) ELSE <<>>

NeedsFallback(respText) == Len(respText) = 0

\* ------------------------------------------------- the response character stream
\* The records a stream is made of: text payloads as they are written in the record
\* (escaped); <<"-">> is the record without a text field, <<>> the empty text.
Payloads == {<<"a">>, <<"b">>, <<"a", BS, DQ>>, <<>>, <<"-">>}

RecordChars(p) ==
  IF p = <<"-">> THEN <<"[", "]">> ELSE <<"[", "T">> \o p \o <<DQ, "]">>

\* The separator a stream puts after each record: an optional comma plus newline,
\* with or without blank space before the line end.
Separators == {<<NL>>, <<",", NL>>, <<SP, NL>>}

\* The characters of records 1..k, each followed by the separator sep.
StreamOf(ps, sep) ==
  LET F[k \in 0..Len(ps)] ==
        IF k = 0 THEN <<>> ELSE F[k - 1] \o RecordChars(ps[k]) \o sep
  IN  F

\* What the stream carries: for each record its decoded text, its length and the
\* index of its last character.
LayoutOf(ps, sep) ==
  [k \in 1..Len(ps) |->
     [text |-> IF ps[k] = <<"-">> THEN <<>> ELSE Unescape(ps[k]),
      len  |-> Len(RecordChars(ps[k])),
      last |-> Len(StreamOf(ps, sep)[k - 1]) + Len(RecordChars(ps[k]))]]

VARIABLES
  stream,        \* the characters the reader delivers before it signals done
  layout,        \* the records of the stream (not read by the engine)
  pos,           \* characters delivered so far
  fullJsonStr,   \* line 245
  responseText,  \* line 244
  chunks,        \* the onChunk calls, in order: [text, by]
  splitSeen,     \* some read ended strictly inside a record (not read by the engine)
  requests,      \* calls of fetch on the generation endpoint (line 211)
  response,      \* what fetch brought: "none", "ok", "status", "nobody", "reject"
  enginePc       \* "start", "requesting", "reading", "done" (returned),
                 \* "failed" (threw)

engineVars == <<stream, layout, pos, splitSeen, fullJsonStr, responseText, chunks,
                requests, response, enginePc>>

Calls(texts, by) == [k \in 1..Len(texts) |-> [text |-> texts[k], by |-> by]]

\* A read that ends at p ends strictly inside a record that the stream completes.
InsideRecord(p) ==
  \E k \in 1..Len(layout) :
    /\ layout[k].last <= Len(stream)
    /\ layout[k].last - layout[k].len < p
    /\ p < layout[k].last

EngineInit ==
  /\ \E n \in 0..MaxRecords :
       \E ps \in [1..n -> Payloads], sep \in Separators :
         \* the stream stops anywhere in its last record or after it
         \E len \in (IF n = 0 THEN 0 ELSE Len(StreamOf(ps, sep)[n - 1]) + 1)
                      ..Len(StreamOf(ps, sep)[n]) :
           /\ stream = SubSeq(StreamOf(ps, sep)[n], 1, len)
           /\ layout = LayoutOf(ps, sep)
  /\ pos = 0
  /\ splitSeen = FALSE
  /\ fullJsonStr = <<>>
  /\ responseText = <<>>
  /\ chunks = <<>>
  /\ requests = 0
  /\ response = "none"
  /\ enginePc = "start"

\* The texts of one pass handed over as a single callback.
LoopCallsBatched(texts) ==
  IF texts = <<>> THEN <<>> ELSE <<[text |-> Flatten(texts), by |-> "loop"]>>

\* Line 278: one onChunk call per text of the pass.
LoopCalls(texts) == Calls(texts, "loop")

\* Lines 248-293: one reader.read() that returns n characters, and the pass over the
\* buffer that follows it.
ReadChunk ==
  /\ enginePc = "reading"
  /\ \E n \in 1..(Len(stream) - pos) :
       LET r == ProcessChunk(fullJsonStr, SubSeq(stream, pos + 1, pos + n))
       IN  /\ pos' = pos + n
           /\ splitSeen' = (splitSeen \/ InsideRecord(pos + n))
           /\ fullJsonStr' = r.buf
           /\ responseText' = responseText \o Flatten(r.out)
           /\ chunks' = chunks \o LoopCalls(r.out)
  /\ UNCHANGED <<stream, layout, requests, response, enginePc>>

\* The engine returns only when the buffer is empty: it waits for a read that makes
\* the remainder decodable.
StreamEndRetry ==
  /\ enginePc = "reading"
  /\ pos = Len(stream)
  /\ fullJsonStr = <<>>
  /\ LET salv == Salvaged(fullJsonStr, responseText)
         resp == responseText \o Flatten(salv)
     IN  /\ responseText' = resp
         /\ chunks' = chunks \o Calls(salv, "salvage")
                             \o (IF NeedsFallback(resp)
                                 THEN Calls(<<fallbackResponse>>, "fallback")
                                 ELSE <<>>)
  /\ enginePc' = "done"
  /\ UNCHANGED <<stream, layout, pos, splitSeen, fullJsonStr, requests, response>>

\* Lines 248-249 and 296-320: the reader signals done; salvage pass and fallback.
StreamEnd ==
  /\ enginePc = "reading"
  /\ pos = Len(stream)
  /\ LET salv == Salvaged(fullJsonStr, responseText)
         resp == responseText \o Flatten(salv)
     IN  /\ responseText' = resp
         /\ chunks' = chunks \o Calls(salv, "salvage")
                             \o (IF NeedsFallback(resp)
                                 THEN Calls(<<fallbackResponse>>, "fallback")
                                 ELSE <<>>)
  /\ enginePc' = "done"
  /\ UNCHANGED <<stream, layout, pos, splitSeen, fullJsonStr, requests, response>>

\* Lines 248 and 321-324: reader.read() rejects; the error is rethrown.
ReadError ==
  /\ enginePc = "reading"
  /\ enginePc' = "failed"
  /\ UNCHANGED <<stream, layout, pos, splitSeen, fullJsonStr, responseText, chunks,
                 requests, response>>

\* ======================================================== session controller
\* ------------------------------------------------------------------ bounds
MaxTurns == 2
\* remote calls that fail in one run
MaxFaults == 1
\* conversations selected, new chats started or active conversations deleted in one
\* run
MaxNavs == 1

NoId == 0
UserMsgId(t) == 2 * t - 1
ResponseId(t) == 2 * t
DbMsgId(ts) == 2 * MaxTurns + ts

\* The text a user submits (handleSubmit's content).
Contents == {<<"h", "i">>}

\* The reads the generation endpoint's response body delivers in a turn.
TurnStreams ==
  { <<>>,
    << <<"[", "T", "a", DQ, "]", ",", NL, "[", "T">>, <<"b", DQ, "]", NL>> >> }

VARIABLES
  messages,           \* Index.tsx line 26: sequence of [id, role, content]
  isProcessing,       \* line 27
  isTyping,           \* line 28
  apiKeyModalOpen,    \* line 29
  currentResponseId,  \* line 30
  conversationId,     \* line 31 (NoId is null)
  loading,            \* the conversation whose messages loadConversation awaits
  GEMINI_API_KEY,     \* geminiService.ts line 12 (<<>> is '')
  storedKey,          \* localStorage item gemini_api_key
  defaultKey,         \* the row of default_api_keys for gemini
  convRows,           \* table conversations: id -> [title]
  nextConvId,         \* the id the store gives the next conversation
  msgRows,            \* table messages in timestamp order: [conv, role, content,
                      \* turn, ts]
  clock,              \* the messages built so far (new Date() of lines 128 and 151)
  turns,              \* the handleSubmit calls: closure, locals and position
  nTurns,             \* handleSubmit calls that passed the isProcessing test
  prompted,           \* the calls that opened the credential prompt
  faults,             \* remote calls that have failed
  navs                \* conversations selected, new chats started, active
                      \* conversations deleted

sessionVars == <<messages, isProcessing, isTyping, apiKeyModalOpen, currentResponseId,
                 conversationId, loading, GEMINI_API_KEY, storedKey, defaultKey,
                 convRows, nextConvId, msgRows, clock, turns, nTurns, prompted,
                 faults, navs>>

\* sessionVars without GEMINI_API_KEY
otherSessionVars == <<messages, isProcessing, isTyping, apiKeyModalOpen, currentResponseId,
                      conversationId, loading, storedKey, defaultKey, convRows,
                      nextConvId, msgRows, clock, turns, nTurns, prompted, faults, navs>>

uiVars == <<messages, isProcessing, isTyping, currentResponseId, conversationId>>
keyVars == <<GEMINI_API_KEY, storedKey, defaultKey>>
storeVars == <<convRows, nextConvId, msgRows>>

Turns == 1..MaxTurns

\* geminiService.ts line 15
VARIABLE conversationHistory

\* Lines 51-67 with nothing under conversation_history in localStorage: the only
\* writer of that entry and of the array is addMessageToHistory (lines 45-49).
HistoryEmpty == conversationHistory = <<>>

\* geminiService.ts line 148: the number of messages taken from the history.
HistoryWindow == 10

\* Line 148: history.slice(-10)
RecentMessages(history) ==
  IF Len(history) <= HistoryWindow THEN history
  ELSE SubSeq(history, Len(history) - HistoryWindow + 1, Len(history))

\* Lines 164-168: each message with the label of its role, in the order of the list.
ConversationContext(recent) ==
  [k \in 1..Len(recent) |->
     [label |-> IF recent[k].role = "user" THEN "User" ELSE "Assistant",
      content |-> recent[k].content]]

FreshTurn ==
  [pc |-> "idle",          \* where the call stands
   content |-> <<>>,       \* handleSubmit's argument
   cConv |-> NoId,         \* conversationId as the call's closure holds it
   cEmpty |-> TRUE,        \* messages.length === 0 as the closure holds it
   prior |-> <<>>,         \* messages as the closure holds it
   context |-> <<>>,       \* the messages of conversationContext in the request
   newConv |-> NoId,       \* newConversationId
   uTs |-> 0,              \* userMessage.timestamp
   aTs |-> 0,              \* aiMessage.timestamp
   requested |-> FALSE,    \* generateStreamingResponse was called
   completed |-> FALSE,    \* generateStreamingResponse returned
   failures |-> {},        \* the steps of the cycle that failed
   notice |-> FALSE,       \* a toast or the credential prompt was shown
   tornAt |-> -1,          \* fragments received when the session was torn down
                           \* during the stream (-1: it was not)
   left |-> <<>>,          \* the reads the response body still delivers
   buf |-> <<>>,           \* fullJsonStr
   resp |-> <<>>,          \* responseText
   fragments |-> <<>>,     \* the texts handed to onChunk
   fullResponse |-> <<>>]  \* line 156

UiInit ==
  /\ messages = <<>>
  /\ isProcessing = FALSE
  /\ isTyping = FALSE
  /\ apiKeyModalOpen = FALSE
  /\ currentResponseId = NoId
  /\ conversationId = NoId
  /\ loading = NoId
  /\ turns = [t \in Turns |-> FreshTurn]
  /\ nTurns = 0
  /\ prompted = {}
  /\ faults = 0
  /\ navs = 0

ControllerInit ==
  /\ UiInit
  /\ convRows = (1 :> [title |-> <<"N">>])
  /\ nextConvId = 2
  /\ msgRows = <<>>
  /\ clock = 0

SessionInit ==
  /\ ControllerInit
  /\ GEMINI_API_KEY = <<>>
  /\ storedKey = <<>>
  /\ defaultKey \in {<<>>, <<"d">>}

\* ------------------------------------------------------------ credential store
\* The stored key is preferred to the default key.
ResolveApiKeyStoredFirst(mem, dbKey, stored) ==
  IF stored # <<>> THEN stored
  ELSE IF dbKey # <<>> THEN dbKey
  ELSE mem

\* geminiService.ts lines 25-37, what getApiKey does once getDefaultApiKey has
\* answered dbKey (<<>> for null): the value left in GEMINI_API_KEY, which it returns.
\* mem is GEMINI_API_KEY, stored the localStorage item, both as they are at that
\* moment; line 23 looked at GEMINI_API_KEY before the lookup and is not run again.
ResolveApiKey(mem, dbKey, stored) ==
  IF dbKey # <<>> THEN dbKey
  ELSE IF stored # <<>> THEN stored
  ELSE mem

\* lines 40-43
HasKey(key) == key # <<>>

\* ------------------------------------------- generateStreamingResponse, its entry
\* The call goes on although no credential resolved.
CredentialCheckSkipped(key) == "requesting"

\* geminiService.ts lines 139-142: without a credential the call throws.
CredentialCheck(key) == IF HasKey(key) THEN "requesting" ELSE "failed"

\* Lines 138-142: getApiKey resolves the credential (found tells whether the lookup
\* of the default key answered with a row), then the credential check.
EngineGetApiKey ==
  /\ enginePc = "start"
  /\ \E found \in BOOLEAN :
       LET key == IF GEMINI_API_KEY # <<>> THEN GEMINI_API_KEY
                  ELSE ResolveApiKey(GEMINI_API_KEY,
                                     IF found THEN defaultKey ELSE <<>>, storedKey)
       IN  /\ found \/ defaultKey # <<>>
           /\ GEMINI_API_KEY' = key
           /\ enginePc' = CredentialCheck(key)
  /\ UNCHANGED <<stream, layout, pos, splitSeen, fullJsonStr, responseText, chunks,
                 requests, response>>

\* The body of a non-success response is read like that of a success.
AfterResponseAnyStatus(outcome) ==
  IF outcome \in {"ok", "status"} THEN "reading" ELSE "failed"

\* Lines 221-237 and 321-324: a response that is not ok or has no body makes the
\* call throw, as does a fetch that rejects.
AfterResponse(outcome) == IF outcome = "ok" THEN "reading" ELSE "failed"

\* Lines 150-237: the request is built (long-term memory and history only shape its
\* body) and sent; the endpoint answers.
EngineFetch ==
  /\ enginePc = "requesting"
  /\ requests' = requests + 1
  /\ \E outcome \in {"ok", "status", "nobody", "reject"} :
       /\ response' = outcome
       /\ enginePc' = AfterResponse(outcome)
  /\ UNCHANGED <<stream, layout, pos, splitSeen, fullJsonStr, responseText, chunks>>

\* lines 17-20, called by ApiKeyModal's handleSubmit with a non-blank key
SetApiKey ==
  /\ apiKeyModalOpen
  /\ GEMINI_API_KEY' = <<"u">>
  /\ storedKey' = <<"u">>
  /\ apiKeyModalOpen' = FALSE
  /\ UNCHANGED <<uiVars, loading, defaultKey, storeVars, clock, turns, nTurns,
                 prompted, faults, navs>>

\* ----------------------------------------------------------- conversation store
\* part_003 lines 142-149: the row saveMessage inserts; ts is message.timestamp.
MessageRow(conv, role, content, t, ts) ==
  [conv |-> conv, role |-> role, content |-> content, turn |-> t, ts |-> ts]

\* The table with one more row, in the order of the timestamps.
InsertRow(rows, row) ==
  SelectSeq(rows, LAMBDA r : r.ts < row.ts) \o <<row>> \o
  SelectSeq(rows, LAMBDA r : r.ts >= row.ts)

\* The rows of every conversation are returned.
AllConversationMessages(conv) ==
  [j \in 1..Len(msgRows) |->
     [id |-> DbMsgId(msgRows[j].ts), role |-> msgRows[j].role,
      content |-> msgRows[j].content]]

\* part_003 lines 167-182: the messages of a conversation by ascending timestamp.
ConversationMessages(conv) ==
  LET rows == SelectSeq(msgRows, LAMBDA r : r.conv = conv)
  IN  [j \in 1..Len(rows) |->
         [id |-> DbMsgId(rows[j].ts), role |-> rows[j].role,
          content |-> rows[j].content]]

\* ------------------------------------------------------------------ handleSubmit
\* The store refuses a message row whose conversation_id names no conversation, and
\* the removal of a conversation that message rows still refer to.
InsertAllowed(conv) == conv \in DOMAIN convRows
DeleteAllowed(id) == \A k \in 1..Len(msgRows) : msgRows[k].conv # id

\* Lines 141-157 and geminiService.ts lines 147-172: the turn enters the streaming
\* phase and the engine builds its request from the history; msgs is the message list
\* the assistant message is appended to.
StartStreaming(t, tr, msgs, now) ==
  /\ clock' = now + 1
  /\ isProcessing' = TRUE
  /\ isTyping' = TRUE
  /\ currentResponseId' = ResponseId(t)
  /\ messages' = Append(msgs, [id |-> ResponseId(t), role |-> "assistant",
                               content |-> <<>>])
  /\ turns' = [turns EXCEPT ![t] =
                [tr EXCEPT !.pc = "awaitFetch", !.requested = TRUE, !.aTs = now + 1,
                           !.context =
                             ConversationContext(RecentMessages(conversationHistory))]]

UserMessage(t, tr) == [id |-> UserMsgId(t), role |-> "user", content |-> tr.content]

\* Lines 114-139 up to the first remote call: a new conversation is created when the
\* closure has no conversation id, otherwise the user message is appended and saved.
EnterTry(t, tr) ==
  IF tr.cConv = NoId
  THEN /\ turns' = [turns EXCEPT ![t] = [tr EXCEPT !.pc = "awaitCreate"]]
       /\ UNCHANGED <<uiVars, clock, apiKeyModalOpen, prompted>>
  ELSE /\ messages' = Append(messages, UserMessage(t, tr))
       /\ clock' = clock + 1
       /\ turns' = [turns EXCEPT ![t] = [tr EXCEPT !.pc = "awaitSaveUser",
                                                   !.uTs = clock + 1]]
       /\ UNCHANGED <<isProcessing, isTyping, currentResponseId, conversationId,
                      apiKeyModalOpen, prompted>>

\* The credential prompt is opened and the call goes on as if a key had resolved.
NoKeyFallThrough(t, tr) ==
  /\ prompted' = prompted \cup {t}
  /\ apiKeyModalOpen' = TRUE
  /\ IF tr.cConv = NoId
     THEN /\ turns' = [turns EXCEPT ![t] = [tr EXCEPT !.pc = "awaitCreate"]]
          /\ UNCHANGED <<uiVars, clock>>
     ELSE /\ messages' = Append(messages, UserMessage(t, tr))
          /\ clock' = clock + 1
          /\ turns' = [turns EXCEPT ![t] = [tr EXCEPT !.pc = "awaitSaveUser",
                                                      !.uTs = clock + 1]]
          /\ UNCHANGED <<isProcessing, isTyping, currentResponseId, conversationId>>

\* Lines 109-112: no credential; the prompt is opened and the call returns.
NoKeyExit(t, tr) ==
  /\ prompted' = prompted \cup {t}
  /\ apiKeyModalOpen' = TRUE
  /\ turns' = [turns EXCEPT ![t] = [tr EXCEPT !.pc = "done", !.notice = TRUE]]
  /\ UNCHANGED <<uiVars, clock>>

\* Lines 108-113: what follows await hasApiKey().
AfterKeyCheck(t, tr, key) ==
  IF HasKey(key) THEN EnterTry(t, tr) ELSE NoKeyExit(t, tr)

\* Lines 105-108: a call of handleSubmit from a render in which isProcessing is false.
\* With a cached credential hasApiKey resolves without a remote call.
Submit ==
  /\ ~isProcessing
  /\ nTurns < MaxTurns
  /\ \E c \in Contents :
       LET t == nTurns + 1
           tr == [FreshTurn EXCEPT !.content = c, !.cConv = conversationId,
                                   !.cEmpty = (messages = <<>>),
                                   !.prior = messages]
       IN  /\ nTurns' = t
           /\ IF GEMINI_API_KEY # <<>>
              THEN AfterKeyCheck(t, tr, GEMINI_API_KEY)
              ELSE /\ turns' = [turns EXCEPT ![t] = [tr EXCEPT !.pc = "awaitKey"]]
                   /\ UNCHANGED <<uiVars, clock, apiKeyModalOpen, prompted>>
  /\ UNCHANGED <<loading, keyVars, storeVars, faults, navs>>

\* geminiService.ts lines 25-37: getDefaultApiKey answers (found tells whether the
\* lookup succeeded), the credential is resolved and cached; then Index.tsx line 109.
DefaultKeyReturns(t) ==
  /\ turns[t].pc = "awaitKey"
  /\ \E found \in BOOLEAN :
       LET key == ResolveApiKey(GEMINI_API_KEY,
                                IF found THEN defaultKey ELSE <<>>, storedKey)
       IN  /\ found \/ (defaultKey # <<>> /\ faults < MaxFaults)
           /\ faults' = IF found THEN faults ELSE faults + 1
           /\ GEMINI_API_KEY' = key
           /\ AfterKeyCheck(t, turns[t], key)
  /\ UNCHANGED <<loading, storedKey, defaultKey, storeVars, nTurns, navs>>

\* Lines 116-122 and 124-157: createConversation answers. On null the call returns
\* through the finally block; otherwise the id is set in the state (the closure keeps
\* its own conversationId), so lines 133-139 are skipped.
CreateReturns(t) ==
  /\ turns[t].pc = "awaitCreate"
  /\ \E ok \in BOOLEAN :
       /\ ok \/ faults < MaxFaults
       /\ faults' = IF ok THEN faults ELSE faults + 1
       /\ IF ok
          THEN /\ convRows' = convRows @@ (nextConvId :> [title |-> <<"N">>])
               /\ nextConvId' = nextConvId + 1
               /\ conversationId' = nextConvId
               /\ StartStreaming(t, [turns[t] EXCEPT !.newConv = nextConvId,
                                                      !.uTs = clock + 1],
                                 Append(messages, UserMessage(t, turns[t])),
                                 clock + 1)
               /\ UNCHANGED msgRows
          ELSE /\ turns' = [turns EXCEPT ![t].pc = "done",
                                         ![t].failures = @ \cup {"create"},
                                         ![t].notice = TRUE]
               /\ isProcessing' = FALSE
               /\ isTyping' = FALSE
               /\ UNCHANGED <<messages, currentResponseId, conversationId, storeVars,
                              clock>>
  /\ UNCHANGED <<apiKeyModalOpen, loading, keyVars, nTurns, prompted, navs>>

\* Lines 134-139 and part_003 lines 140-164: saveMessage of the user message answers;
\* its result is not looked at.
SaveUserReturns(t) ==
  /\ turns[t].pc = "awaitSaveUser"
  /\ \E ok \in BOOLEAN :
       /\ ok => InsertAllowed(turns[t].cConv)
       /\ ok \/ faults < MaxFaults \/ ~InsertAllowed(turns[t].cConv)
       /\ faults' = IF ok \/ ~InsertAllowed(turns[t].cConv) THEN faults ELSE faults + 1
       /\ LET tr == IF ok THEN turns[t]
                    ELSE [turns[t] EXCEPT !.failures = @ \cup {"saveUser"}]
          IN  /\ msgRows' = IF ok
                            THEN InsertRow(msgRows,
                                   MessageRow(tr.cConv, "user", tr.content, t, tr.uTs))
                            ELSE msgRows
              /\ IF tr.cEmpty
                 THEN /\ turns' = [turns EXCEPT ![t] = [tr EXCEPT !.pc = "awaitTitle"]]
                      /\ UNCHANGED <<uiVars, clock>>
                 ELSE /\ StartStreaming(t, tr, messages, clock)
                      /\ UNCHANGED conversationId
  /\ UNCHANGED <<apiKeyModalOpen, loading, keyVars, convRows, nextConvId, nTurns,
                 prompted, navs>>

\* Index.tsx line 100: the length up to which a first message is its own title.
TitleLimit == 30

\* A message of TitleLimit units is cut as well.
TitleOfFromLimit(content) ==
  IF Len(content) >= TitleLimit
  THEN SubSeq(content, 1, TitleLimit) \o <<".", ".", ".">>
  ELSE content

\* Lines 99-103: the title derived from the first message.
TitleOf(content) ==
  IF Len(content) > TitleLimit
  THEN SubSeq(content, 1, TitleLimit) \o <<".", ".", ".">>
  ELSE content

\* Lines 136-138 and part_003 lines 95-110: updateConversationTitle answers; a
\* failure is reported by a toast inside it.
TitleReturns(t) ==
  /\ turns[t].pc = "awaitTitle"
  /\ \E ok \in BOOLEAN :
       /\ ok \/ faults < MaxFaults
       /\ faults' = IF ok THEN faults ELSE faults + 1
       /\ convRows' = IF ok /\ turns[t].cConv \in DOMAIN convRows
                      THEN [convRows EXCEPT ![turns[t].cConv].title =
                                              TitleOf(turns[t].content)]
                      ELSE convRows
       /\ StartStreaming(t, IF ok THEN turns[t]
                            ELSE [turns[t] EXCEPT !.failures = @ \cup {"title"},
                                                  !.notice = TRUE],
                         messages, clock)
  /\ UNCHANGED <<conversationId, apiKeyModalOpen, loading, keyVars, nextConvId,
                 msgRows, nTurns, prompted, navs>>

\* The engine's failure is swallowed: the call goes on to save the assistant message.
TurnFailsSaving(t, step) ==
  /\ turns' = [turns EXCEPT ![t].pc = IF turns[t].cConv # NoId THEN "awaitSaveAi"
                                      ELSE "done",
                            ![t].failures = @ \cup {step},
                            ![t].notice = TRUE]
  /\ isProcessing' = (turns[t].cConv # NoId)
  /\ isTyping' = (turns[t].cConv # NoId)
  /\ UNCHANGED <<messages, currentResponseId, conversationId, clock>>

\* geminiService.ts lines 321-324 and Index.tsx lines 182-189: the engine throws, both
\* catch blocks show a toast, the finally block runs.
TurnFails(t, step) ==
  /\ turns' = [turns EXCEPT ![t].pc = "done", ![t].failures = @ \cup {step},
                            ![t].notice = TRUE]
  /\ isProcessing' = FALSE
  /\ isTyping' = FALSE
  /\ UNCHANGED <<messages, currentResponseId, conversationId, clock>>

\* geminiService.ts lines 211-242: the endpoint answers the request.
FetchReturns(t) ==
  /\ turns[t].pc = "awaitFetch"
  /\ \/ \E s \in TurnStreams :
          /\ turns' = [turns EXCEPT ![t].pc = "reading", ![t].left = s]
          /\ UNCHANGED <<uiVars, clock, faults>>
     \/ /\ faults < MaxFaults
        /\ faults' = faults + 1
        /\ TurnFails(t, "request")
  /\ UNCHANGED <<apiKeyModalOpen, loading, keyVars, storeVars, nTurns, prompted, navs>>

\* The callback adds the assistant message when the list does not hold it.
OnChunksUpsert(msgs, rid, full) ==
  IF \E k \in 1..Len(msgs) : msgs[k].id = rid
  THEN [k \in 1..Len(msgs) |->
          IF msgs[k].id = rid THEN [msgs[k] EXCEPT !.content = full] ELSE msgs[k]]
  ELSE Append(msgs, [id |-> rid, role |-> "assistant", content |-> full])

\* The callback writes the response so far into the last message of the list.
OnChunksLast(msgs, rid, full) ==
  [k \in 1..Len(msgs) |->
     IF k = Len(msgs) THEN [msgs[k] EXCEPT !.content = full] ELSE msgs[k]]

\* Index.tsx lines 157-167: the callback, for each text in turn; the message whose id
\* is the response id gets the response so far as its content.
OnChunks(msgs, rid, full) ==
  [k \in 1..Len(msgs) |->
     IF msgs[k].id = rid THEN [msgs[k] EXCEPT !.content = full] ELSE msgs[k]]

\* Lines 169-178 and 185-189 when the closure has no conversation id: nothing is
\* saved, the call ends.
FinishTurn(t, tr) ==
  /\ turns' = [turns EXCEPT ![t] = [tr EXCEPT !.pc = "done"]]
  /\ currentResponseId' = NoId
  /\ isProcessing' = FALSE
  /\ isTyping' = FALSE

\* geminiService.ts lines 248-293 inside a turn: one read and its pass.
TurnReads(t) ==
  /\ turns[t].pc = "reading"
  /\ turns[t].left # <<>>
  /\ LET r == ProcessChunk(turns[t].buf, Head(turns[t].left))
         full == turns[t].fullResponse \o Flatten(r.out)
     IN  /\ turns' = [turns EXCEPT ![t].left = Tail(@), ![t].buf = r.buf,
                                   ![t].resp = @ \o Flatten(r.out),
                                   ![t].fragments = @ \o r.out,
                                   ![t].fullResponse = full]
         /\ messages' = IF r.out = <<>> THEN messages
                        ELSE OnChunks(messages, ResponseId(t), full)
  /\ UNCHANGED <<isProcessing, isTyping, currentResponseId, conversationId,
                 apiKeyModalOpen, loading, keyVars, storeVars, clock, nTurns,
                 prompted, faults, navs>>

\* geminiService.ts lines 248 and 321-324: a read rejects.
TurnReadFails(t) ==
  /\ turns[t].pc = "reading"
  /\ faults < MaxFaults
  /\ faults' = faults + 1
  /\ TurnFails(t, "read")
  /\ UNCHANGED <<apiKeyModalOpen, loading, keyVars, storeVars, nTurns, prompted, navs>>

\* geminiService.ts lines 296-320 and Index.tsx lines 169-176: the reader signals done,
\* salvage and fallback run, generateStreamingResponse returns; the assistant message
\* is saved when the closure has a conversation id.
TurnStreamEnds(t) ==
  /\ turns[t].pc = "reading"
  /\ turns[t].left = <<>>
  /\ LET salv == Salvaged(turns[t].buf, turns[t].resp)
         out == salv \o (IF NeedsFallback(turns[t].resp \o Flatten(salv))
                         THEN <<fallbackResponse>> ELSE <<>>)
         full == turns[t].fullResponse \o Flatten(out)
         tr == [turns[t] EXCEPT !.resp = @ \o Flatten(salv),
                                !.fragments = @ \o out,
                                !.fullResponse = full,
                                !.completed = TRUE]
     IN  /\ messages' = IF out = <<>> THEN messages
                        ELSE OnChunks(messages, ResponseId(t), full)
         /\ IF tr.cConv # NoId
            THEN /\ turns' = [turns EXCEPT ![t] = [tr EXCEPT !.pc = "awaitSaveAi"]]
                 /\ UNCHANGED <<isProcessing, isTyping, currentResponseId>>
            ELSE FinishTurn(t, tr)
  /\ UNCHANGED <<conversationId, apiKeyModalOpen, loading, keyVars, storeVars,
                 clock, nTurns, prompted, faults, navs>>

\* Index.tsx lines 174-189: saveMessage of the assistant message answers; its result
\* is not looked at.
SaveAiReturns(t) ==
  /\ turns[t].pc = "awaitSaveAi"
  /\ \E ok \in BOOLEAN :
       /\ ok => InsertAllowed(turns[t].cConv)
       /\ ok \/ faults < MaxFaults \/ ~InsertAllowed(turns[t].cConv)
       /\ faults' = IF ok \/ ~InsertAllowed(turns[t].cConv) THEN faults ELSE faults + 1
       /\ msgRows' = IF ok
                     THEN InsertRow(msgRows,
                            MessageRow(turns[t].cConv, "assistant",
                                       turns[t].fullResponse, t, turns[t].aTs))
                     ELSE msgRows
       /\ FinishTurn(t, IF ok THEN turns[t]
                        ELSE [turns[t] EXCEPT !.failures = @ \cup {"saveAi"}])
  /\ UNCHANGED <<messages, conversationId, apiKeyModalOpen, loading, keyVars,
                 convRows, nextConvId, clock, nTurns, prompted, navs>>

\* -------------------------------------------------------------------- navigation
\* Index.tsx lines 80-84: a conversation of the sidebar is selected.
LoadConversation ==
  /\ ~isProcessing
  /\ loading = NoId
  /\ navs < MaxNavs
  /\ navs' = navs + 1
  /\ \E id \in DOMAIN convRows :
       /\ conversationId' = id
       /\ loading' = id
  /\ UNCHANGED <<messages, isProcessing, isTyping, currentResponseId, apiKeyModalOpen,
                 keyVars, storeVars, clock, turns, nTurns, prompted, faults>>

\* Lines 84-86 and part_003 lines 167-188: getConversationMessages answers, with the
\* rows of the conversation or, after an error and its toast, with no message.
LoadReturns ==
  /\ loading # NoId
  /\ \E ok \in BOOLEAN :
       /\ ok \/ faults < MaxFaults
       /\ faults' = IF ok THEN faults ELSE faults + 1
       /\ messages' = IF ok THEN ConversationMessages(loading) ELSE <<>>
  /\ loading' = NoId
  /\ UNCHANGED <<isProcessing, isTyping, currentResponseId, conversationId,
                 apiKeyModalOpen, keyVars, storeVars, clock, turns, nTurns, prompted,
                 navs>>

\* part_000 lines 94-106 and Index.tsx lines 89-93: the sidebar's deleteConversation
\* of the active conversation has returned true (its messages and its row are gone)
\* and handleConversationDeleted resets the session; the button is not tied to
\* isProcessing.
ConversationDeleted ==
  /\ conversationId # NoId
  /\ navs < MaxNavs
  /\ navs' = navs + 1
  /\ msgRows' = SelectSeq(msgRows, LAMBDA r : r.conv # conversationId)
  /\ convRows' = [c \in DOMAIN convRows \ {conversationId} |-> convRows[c]]
  /\ conversationId' = NoId
  /\ messages' = <<>>
  /\ turns' = [t \in Turns |->
                IF turns[t].pc \in {"awaitFetch", "reading"}
                THEN [turns[t] EXCEPT !.tornAt = Len(turns[t].fragments)]
                ELSE turns[t]]
  /\ UNCHANGED <<isProcessing, isTyping, currentResponseId, apiKeyModalOpen, loading,
                 keyVars, nextConvId, clock, nTurns, prompted, faults>>

\* Lines 192-205
NewChat ==
  /\ ~isProcessing
  /\ navs < MaxNavs
  /\ navs' = navs + 1
  /\ conversationId' = NoId
  /\ messages' = <<>>
  /\ UNCHANGED <<isProcessing, isTyping, currentResponseId, apiKeyModalOpen, loading,
                 keyVars, storeVars, clock, turns, nTurns, prompted, faults>>


\* ============================================================ credential store
\* calls of getApiKey in one run
MaxKeyCalls == 2
\* calls of setApiKey in one run
MaxSets == 1

\* The keys a user enters in the credential prompt.
UserKeys == {<<"u">>, <<"v">>}
\* The row of default_api_keys over time: absent, or one of two keys.
DefaultKeys == {<<>>, <<"d">>, <<"e">>}

VARIABLES
  keyCalls,   \* the calls of getApiKey: position, what they read and returned
  nKeyCalls,  \* calls of getApiKey made
  lookups,    \* calls of getDefaultApiKey made
  lastSet,    \* the argument of the last setApiKey (<<>> before the first)
  sets        \* calls of setApiKey made

keyOpVars == <<keyCalls, nKeyCalls, lookups, lastSet, sets>>

KeyCalls == 1..MaxKeyCalls

FreshKeyCall ==
  [pc |-> "idle",       \* "idle", "lookup" (awaiting getDefaultApiKey), "done"
   mem0 |-> <<>>,       \* GEMINI_API_KEY at line 23
   set0 |-> <<>>,       \* the last setApiKey before the call
   looked |-> FALSE,    \* getDefaultApiKey was called
   dbKey |-> <<>>,      \* its answer (<<>> for null)
   stored |-> <<>>,     \* localStorage item at line 32
   mem1 |-> <<>>,       \* GEMINI_API_KEY when the lookup answered
   result |-> <<>>,     \* the value returned
   cached |-> <<>>]     \* GEMINI_API_KEY when the call returned

KeyOpsIdle ==
  /\ keyCalls = [c \in KeyCalls |-> FreshKeyCall]
  /\ nKeyCalls = 0
  /\ lookups = 0
  /\ lastSet = <<>>
  /\ sets = 0

\* geminiService.ts lines 17-20
KeySet ==
  /\ sets < MaxSets
  /\ \E k \in UserKeys :
       /\ GEMINI_API_KEY' = k
       /\ storedKey' = k
       /\ lastSet' = k
  /\ sets' = sets + 1
  /\ UNCHANGED <<defaultKey, keyCalls, nKeyCalls, lookups>>

\* Lines 22-25 and 37: getApiKey is called; a cached key is returned at once,
\* otherwise the default key is looked up.
KeyCall ==
  /\ nKeyCalls < MaxKeyCalls
  /\ nKeyCalls' = nKeyCalls + 1
  /\ LET c == nKeyCalls + 1
         call == [FreshKeyCall EXCEPT !.mem0 = GEMINI_API_KEY, !.set0 = lastSet]
     IN  IF GEMINI_API_KEY # <<>>
         THEN /\ keyCalls' = [keyCalls EXCEPT ![c] =
                                [call EXCEPT !.pc = "done", !.result = GEMINI_API_KEY,
                                             !.cached = GEMINI_API_KEY]]
              /\ UNCHANGED lookups
         ELSE /\ keyCalls' = [keyCalls EXCEPT ![c] =
                                [call EXCEPT !.pc = "lookup", !.looked = TRUE]]
              /\ lookups' = lookups + 1
  /\ UNCHANGED <<GEMINI_API_KEY, storedKey, defaultKey, lastSet, sets>>

\* Lines 25-37 and part_003 lines 191-205: getDefaultApiKey answers with the row or,
\* after an error, with null; the key is resolved, cached and returned.
KeyLookupReturns(c) ==
  /\ keyCalls[c].pc = "lookup"
  /\ \E found \in BOOLEAN :
       LET dbKey == IF found THEN defaultKey ELSE <<>>
           key == ResolveApiKey(GEMINI_API_KEY, dbKey, storedKey)
       IN  /\ GEMINI_API_KEY' = key
           /\ keyCalls' = [keyCalls EXCEPT ![c].pc = "done", ![c].dbKey = dbKey,
                                           ![c].stored = storedKey,
                                           ![c].mem1 = GEMINI_API_KEY,
                                           ![c].result = key, ![c].cached = key]
  /\ UNCHANGED <<storedKey, defaultKey, nKeyCalls, lookups, lastSet, sets>>

\* The row of default_api_keys is changed in the remote store.
DefaultChanges ==
  /\ \E d \in DefaultKeys \ {defaultKey} : defaultKey' = d
  /\ UNCHANGED <<GEMINI_API_KEY, storedKey, keyOpVars>>

\* ========================================================== conversation store
\* operations of the store invoked in one run
MaxOps == 2
\* units by which a first message exceeds TitleLimit
MaxOver == 1

VARIABLES
  user,      \* the authenticated identity supabase.auth.getUser() answers ("none": null)
  ops,       \* the calls of the store's functions: arguments, position, outcome
  nOps       \* calls made

storeOpVars == <<user, ops, nOps>>

Ops == 1..MaxOps

OpKinds == {"create", "list", "fetch", "save", "rename", "delete"}

\* The first messages a title is derived from: x and y in turn, of every length
\* around TitleLimit.
TitleContents ==
  {[i \in 1..n |-> IF i % 2 = 1 THEN "x" ELSE "y"] :
     n \in (TitleLimit - 1)..(TitleLimit + MaxOver)}

FreshOp ==
  [kind |-> "none",
   pc |-> "idle",         \* "idle", "call1", "call2" (awaiting a store call), "done"
   id |-> NoId,           \* the conversation id passed
   content |-> <<>>,      \* the first message (rename), the message content (save)
   title |-> <<>>,        \* the title passed to updateConversationTitle (rename)
   owner |-> "none",      \* the identity getUser answered, where the function asks
   authed |-> FALSE,      \* an identity was signed in when the call was made
   calls |-> 0,           \* store calls made
   t |-> 0,               \* the new Date() the call wrote as updated_at
   ts |-> 0,              \* message.timestamp (save)
   outcome |-> "none",    \* "ok" (true, an id, a list), "failed" (false, null, <<>>
                          \* after an error), "auth" (no identity)
   notice |-> "none",     \* the toast shown: "none", "auth", "error"
   result |-> <<>>,       \* the list returned (list, fetch), <<id>> (create)
   fault |-> FALSE,       \* a store call of it failed remotely
   blocked |-> FALSE,     \* a store call of it was refused by a referential constraint
   inserted |-> FALSE,    \* its message row was inserted (save)
   deleted |-> FALSE]     \* deleteConversation(id) had returned true before (fetch)

StoreOpsIdle ==
  /\ user = "none"
  /\ ops = [o \in Ops |-> FreshOp]
  /\ nOps = 0

\* part_003 lines 56-60: the caller's conversations, most recently updated first.
UserConversations(owner) ==
  LET ids == {c \in DOMAIN convRows : convRows[c].owner = owner}
      Newer(d, c) == \/ convRows[d].updated > convRows[c].updated
                     \/ convRows[d].updated = convRows[c].updated /\ d < c
      rank(c) == Cardinality({d \in ids : Newer(d, c)}) + 1
  IN  [k \in 1..Cardinality(ids) |-> CHOOSE c \in ids : rank(c) = k]

\* The conversation row goes first.
DeleteStepsConversationFirst == <<"conversation", "messages">>

\* part_003 lines 116-127: the two store calls of deleteConversation, in order.
DeleteSteps == <<"messages", "conversation">>

\* An operation is over: outcome, toast, and what it returns.
Finish(o, op, outcome, notice, result) ==
  ops' = [ops EXCEPT ![o] = [op EXCEPT !.pc = "done", !.outcome = outcome,
                                       !.notice = notice, !.result = result]]

\* A function of the store is called: createConversation and getUserConversations
\* ask for the identity first (part_003 lines 17-21 and 50-54), the others make their
\* first store call; a rename derives the title (Index.tsx line 100) and takes its
\* updated_at (part_003 line 99); the caller of saveMessage has built the message with
\* its timestamp.
StoreStart(kind, id, content) ==
  LET o == nOps + 1
      op == [FreshOp EXCEPT
               !.kind = kind, !.id = id, !.content = content,
               !.authed = (user # "none"),
               !.owner = IF kind \in {"create", "list"} THEN user ELSE "none",
               !.deleted = \E d \in Ops : /\ ops[d].kind = "delete"
                                          /\ ops[d].id = id
                                          /\ ops[d].pc = "done"
                                          /\ ops[d].outcome = "ok"]
      called == [op EXCEPT !.pc = "call1", !.calls = 1]
  IN  /\ nOps' = o
      /\ IF kind \in {"create", "list"} /\ user = "none"
         THEN Finish(o, op, "auth", "auth", <<>>) /\ UNCHANGED clock
         ELSE IF kind = "rename"
         THEN /\ ops' = [ops EXCEPT ![o] = [called EXCEPT !.t = clock + 1,
                                                          !.title = TitleOf(content)]]
              /\ clock' = clock + 1
         ELSE IF kind = "save"
         THEN /\ ops' = [ops EXCEPT ![o] = [called EXCEPT !.ts = clock + 1]]
              /\ clock' = clock + 1
         ELSE /\ ops' = [ops EXCEPT ![o] = called]
              /\ UNCHANGED clock

StoreInvoke ==
  /\ nOps < MaxOps
  /\ \/ \E kind \in {"create", "list"} : StoreStart(kind, NoId, <<>>)
     \/ \E kind \in {"fetch", "delete"}, id \in 1..(nextConvId - 1) :
          StoreStart(kind, id, <<>>)
     \/ \E id \in 1..(nextConvId - 1) : StoreStart("save", id, <<"m">>)
     \/ \E id \in 1..(nextConvId - 1), content \in TitleContents :
          StoreStart("rename", id, content)
  /\ UNCHANGED <<user, convRows, nextConvId, msgRows, faults>>

\* A store call is answered: ok, or a remote failure.
Answered(ok) ==
  /\ ok \/ faults < MaxFaults
  /\ faults' = IF ok THEN faults ELSE faults + 1

\* part_003 lines 23-43
CreateAnswers(o) ==
  /\ ops[o].kind = "create" /\ ops[o].pc = "call1"
  /\ \E ok \in BOOLEAN :
       /\ Answered(ok)
       /\ IF ok
          THEN /\ convRows' = convRows @@
                     (nextConvId :> [title |-> <<"N">>, owner |-> ops[o].owner,
                                     updated |-> clock + 1])
               /\ nextConvId' = nextConvId + 1
               /\ clock' = clock + 1
               /\ Finish(o, ops[o], "ok", "none", <<nextConvId>>)
          ELSE /\ Finish(o, [ops[o] EXCEPT !.fault = TRUE], "failed", "error", <<>>)
               /\ UNCHANGED <<convRows, nextConvId, clock>>
  /\ UNCHANGED <<user, nOps, msgRows>>

\* part_003 lines 56-73
ListAnswers(o) ==
  /\ ops[o].kind = "list" /\ ops[o].pc = "call1"
  /\ \E ok \in BOOLEAN :
       /\ Answered(ok)
       /\ IF ok
          THEN Finish(o, ops[o], "ok", "none", UserConversations(ops[o].owner))
          ELSE Finish(o, [ops[o] EXCEPT !.fault = TRUE], "failed", "error", <<>>)
  /\ UNCHANGED <<user, nOps, convRows, nextConvId, msgRows, clock>>

\* part_003 lines 167-188
FetchAnswers(o) ==
  /\ ops[o].kind = "fetch" /\ ops[o].pc = "call1"
  /\ \E ok \in BOOLEAN :
       /\ Answered(ok)
       /\ IF ok
          THEN Finish(o, ops[o], "ok", "none", ConversationMessages(ops[o].id))
          ELSE Finish(o, [ops[o] EXCEPT !.fault = TRUE], "failed", "error", <<>>)
  /\ UNCHANGED <<user, nOps, convRows, nextConvId, msgRows, clock>>

\* part_003 lines 95-110
RenameAnswers(o) ==
  /\ ops[o].kind = "rename" /\ ops[o].pc = "call1"
  /\ \E ok \in BOOLEAN :
       /\ Answered(ok)
       /\ IF ok
          THEN /\ convRows' = IF ops[o].id \in DOMAIN convRows
                              THEN [convRows EXCEPT
                                      ![ops[o].id].title = ops[o].title,
                                      ![ops[o].id].updated = ops[o].t]
                              ELSE convRows
               /\ Finish(o, ops[o], "ok", "none", <<>>)
          ELSE /\ Finish(o, [ops[o] EXCEPT !.fault = TRUE], "failed", "error", <<>>)
               /\ UNCHANGED convRows
  /\ UNCHANGED <<user, nOps, nextConvId, msgRows, clock>>

\* part_003 lines 142-151: the insert of saveMessage is answered; an error makes it
\* return false with nothing but a console line, otherwise the update of updated_at
\* is sent with a new Date() (lines 154-157).
SaveInserts(o) ==
  /\ ops[o].kind = "save" /\ ops[o].pc = "call1"
  /\ \E ok \in BOOLEAN :
       /\ Answered(ok)
       /\ IF ok /\ InsertAllowed(ops[o].id)
          THEN /\ msgRows' = InsertRow(msgRows, MessageRow(ops[o].id, "user",
                                                          ops[o].content, 0, ops[o].ts))
               /\ ops' = [ops EXCEPT ![o].pc = "call2", ![o].calls = 2,
                                     ![o].inserted = TRUE, ![o].t = clock + 1]
               /\ clock' = clock + 1
          ELSE /\ Finish(o, [ops[o] EXCEPT !.fault = ~ok, !.blocked = ok],
                         "failed", "none", <<>>)
               /\ UNCHANGED <<msgRows, clock>>
  /\ UNCHANGED <<user, nOps, convRows, nextConvId>>

\* part_003 lines 154-159: the update of updated_at is answered; its error is not
\* looked at and saveMessage returns true.
SaveBumps(o) ==
  /\ ops[o].kind = "save" /\ ops[o].pc = "call2"
  /\ \E ok \in BOOLEAN :
       /\ Answered(ok)
       /\ convRows' = IF ok /\ ops[o].id \in DOMAIN convRows
                      THEN [convRows EXCEPT ![ops[o].id].updated = ops[o].t]
                      ELSE convRows
       /\ Finish(o, [ops[o] EXCEPT !.fault = ~ok], "ok", "none", <<>>)
  /\ UNCHANGED <<user, nOps, nextConvId, msgRows, clock>>

\* deleteConversation without the throw of line 121: the error of the first store
\* call is recorded and the second call is made all the same.
DeleteCallUnchecked(o, k) ==
  /\ ops[o].kind = "delete" /\ ops[o].pc = (IF k = 1 THEN "call1" ELSE "call2")
  /\ \E ok \in BOOLEAN :
       LET id == ops[o].id
           refused == DeleteSteps[k] = "conversation" /\ ~DeleteAllowed(id)
       IN  /\ Answered(ok)
           /\ IF k = 1
              THEN /\ msgRows' = IF ok THEN SelectSeq(msgRows, LAMBDA r : r.conv # id)
                                      ELSE msgRows
                   /\ UNCHANGED convRows
                   /\ ops' = [ops EXCEPT ![o].pc = "call2", ![o].calls = 2,
                                          ![o].fault = ~ok]
              ELSE IF ok /\ ~refused
                   THEN /\ convRows' = [c \in DOMAIN convRows \ {id} |-> convRows[c]]
                        /\ UNCHANGED msgRows
                        /\ Finish(o, ops[o], "ok", "none", <<>>)
                   ELSE /\ Finish(o, [ops[o] EXCEPT !.fault = ~ok, !.blocked = ok],
                                  "failed", "error", <<>>)
                        /\ UNCHANGED <<convRows, msgRows>>
  /\ UNCHANGED <<user, nOps, nextConvId, clock>>

\* part_003 lines 116-135: the k-th store call of deleteConversation is answered.
DeleteCall(o, k) ==
  /\ ops[o].kind = "delete" /\ ops[o].pc = (IF k = 1 THEN "call1" ELSE "call2")
  /\ \E ok \in BOOLEAN :
       LET id == ops[o].id
           refused == DeleteSteps[k] = "conversation" /\ ~DeleteAllowed(id)
       IN  /\ Answered(ok)
           /\ IF ok /\ ~refused
              THEN /\ IF DeleteSteps[k] = "messages"
                      THEN /\ msgRows' = SelectSeq(msgRows, LAMBDA r : r.conv # id)
                           /\ UNCHANGED convRows
                      ELSE /\ convRows' = [c \in DOMAIN convRows \ {id} |-> convRows[c]]
                           /\ UNCHANGED msgRows
                   /\ IF k = 1
                      THEN ops' = [ops EXCEPT ![o].pc = "call2", ![o].calls = 2]
                      ELSE Finish(o, ops[o], "ok", "none", <<>>)
              ELSE /\ Finish(o, [ops[o] EXCEPT !.fault = ~ok, !.blocked = ok],
                             "failed", "error", <<>>)
                   /\ UNCHANGED <<convRows, msgRows>>
  /\ UNCHANGED <<user, nOps, nextConvId, clock>>

DeleteFirst(o) == DeleteCall(o, 1)
DeleteSecond(o) == DeleteCall(o, 2)

\* -------------------------------------------------------------- specifications
auxVars == <<keyOpVars, storeOpVars, conversationHistory>>

AuxIdle == KeyOpsIdle /\ StoreOpsIdle /\ HistoryEmpty

\* sessionVars without the credential
nonKeyVars == <<messages, isProcessing, isTyping, apiKeyModalOpen, currentResponseId,
                conversationId, loading, convRows, nextConvId, msgRows, clock, turns,
                nTurns, prompted, faults, navs, conversationHistory>>

vars == <<engineVars, sessionVars, auxVars>>

\* The engine alone, on every stream within the bounds.
Init == EngineInit /\ SessionInit /\ AuxIdle

Next ==
  \/ EngineGetApiKey /\ UNCHANGED <<otherSessionVars, auxVars>>
  \/ EngineFetch /\ UNCHANGED <<sessionVars, auxVars>>
  \/ ReadChunk /\ UNCHANGED <<sessionVars, auxVars>>
  \/ StreamEnd /\ UNCHANGED <<sessionVars, auxVars>>
  \/ ReadError /\ UNCHANGED <<sessionVars, auxVars>>

Spec == Init /\ [][Next]_vars

\* The engine reading a response in which some line is no JSON: "!" is a character
\* that JSON.parse rejects inside a string.
BrokenPayloads == {<<"a">>, <<"b">>, <<>>, <<"!">>}

InitBroken ==
  /\ \E n \in 1..MaxRecords :
       \E ps \in [1..n -> BrokenPayloads], sep \in Separators :
         /\ \E k \in 1..n : ps[k] = <<"!">>
         /\ stream = StreamOf(ps, sep)[n]
         /\ layout = LayoutOf(ps, sep)
  /\ pos = 0
  /\ splitSeen = FALSE
  /\ fullJsonStr = <<>>
  /\ responseText = <<>>
  /\ chunks = <<>>
  /\ requests = 1
  /\ response = "ok"
  /\ enginePc = "reading"
  /\ ControllerInit
  /\ GEMINI_API_KEY = <<"d">> /\ storedKey = <<>> /\ defaultKey = <<"d">>
  /\ AuxIdle

NextBroken ==
  \/ ReadChunk /\ UNCHANGED <<sessionVars, auxVars>>
  \/ StreamEnd /\ UNCHANGED <<sessionVars, auxVars>>
  \/ ReadError /\ UNCHANGED <<sessionVars, auxVars>>

SpecBroken == InitBroken /\ [][NextBroken]_vars

\* The session controller with the store and the engine inside each turn.
EngineIdle ==
  /\ stream = <<>> /\ layout = <<>> /\ pos = 0 /\ splitSeen = FALSE
  /\ fullJsonStr = <<>> /\ responseText = <<>> /\ chunks = <<>>
  /\ requests = 0 /\ response = "none" /\ enginePc = "idle"

InitSession == SessionInit /\ EngineIdle /\ AuxIdle

NextSession ==
  \/ Submit /\ UNCHANGED <<engineVars, auxVars>>
  \/ SetApiKey /\ UNCHANGED <<engineVars, auxVars>>
  \/ LoadConversation /\ UNCHANGED <<engineVars, auxVars>>
  \/ LoadReturns /\ UNCHANGED <<engineVars, auxVars>>
  \/ NewChat /\ UNCHANGED <<engineVars, auxVars>>
  \/ \E t \in Turns : DefaultKeyReturns(t) /\ UNCHANGED <<engineVars, auxVars>>
  \/ \E t \in Turns : CreateReturns(t) /\ UNCHANGED <<engineVars, auxVars>>
  \/ \E t \in Turns : SaveUserReturns(t) /\ UNCHANGED <<engineVars, auxVars>>
  \/ \E t \in Turns : TitleReturns(t) /\ UNCHANGED <<engineVars, auxVars>>
  \/ \E t \in Turns : FetchReturns(t) /\ UNCHANGED <<engineVars, auxVars>>
  \/ \E t \in Turns : TurnReads(t) /\ UNCHANGED <<engineVars, auxVars>>
  \/ \E t \in Turns : TurnReadFails(t) /\ UNCHANGED <<engineVars, auxVars>>
  \/ \E t \in Turns : TurnStreamEnds(t) /\ UNCHANGED <<engineVars, auxVars>>
  \/ \E t \in Turns : SaveAiReturns(t) /\ UNCHANGED <<engineVars, auxVars>>

SpecSession == InitSession /\ [][NextSession]_vars

\* The turns of a session whose active conversation can be deleted from the sidebar
\* at any moment: the credential is cached, and the session starts as a new one or
\* with the empty conversation 1 selected.
InitTeardown ==
  /\ EngineIdle
  /\ AuxIdle
  /\ messages = <<>>
  /\ isProcessing = FALSE
  /\ isTyping = FALSE
  /\ apiKeyModalOpen = FALSE
  /\ currentResponseId = NoId
  /\ conversationId \in {NoId, 1}
  /\ loading = NoId
  /\ turns = [t \in Turns |-> FreshTurn]
  /\ nTurns = 0
  /\ prompted = {}
  /\ faults = 0
  /\ navs = 0
  /\ convRows = (1 :> [title |-> <<"N">>])
  /\ nextConvId = 2
  /\ msgRows = <<>>
  /\ clock = 0
  /\ GEMINI_API_KEY = <<"d">> /\ storedKey = <<>> /\ defaultKey = <<"d">>

NextTeardown ==
  \/ Submit /\ UNCHANGED <<engineVars, auxVars>>
  \/ ConversationDeleted /\ UNCHANGED <<engineVars, auxVars>>
  \/ \E t \in Turns : CreateReturns(t) /\ UNCHANGED <<engineVars, auxVars>>
  \/ \E t \in Turns : SaveUserReturns(t) /\ UNCHANGED <<engineVars, auxVars>>
  \/ \E t \in Turns : TitleReturns(t) /\ UNCHANGED <<engineVars, auxVars>>
  \/ \E t \in Turns : FetchReturns(t) /\ UNCHANGED <<engineVars, auxVars>>
  \/ \E t \in Turns : TurnReads(t) /\ UNCHANGED <<engineVars, auxVars>>
  \/ \E t \in Turns : TurnReadFails(t) /\ UNCHANGED <<engineVars, auxVars>>
  \/ \E t \in Turns : TurnStreamEnds(t) /\ UNCHANGED <<engineVars, auxVars>>
  \/ \E t \in Turns : SaveAiReturns(t) /\ UNCHANGED <<engineVars, auxVars>>

SpecTeardown == InitTeardown /\ [][NextTeardown]_vars

\* The credential store alone: calls of getApiKey and setApiKey in any order, in a
\* process that starts with or without a stored key and a default key.
InitKey ==
  /\ EngineIdle
  /\ ControllerInit
  /\ GEMINI_API_KEY = <<>>
  /\ storedKey \in {<<>>, <<"s">>}
  /\ defaultKey \in {<<>>, <<"d">>}
  /\ KeyOpsIdle
  /\ StoreOpsIdle
  /\ HistoryEmpty

NextKey ==
  \/ KeySet /\ UNCHANGED <<engineVars, nonKeyVars, storeOpVars>>
  \/ KeyCall /\ UNCHANGED <<engineVars, nonKeyVars, storeOpVars>>
  \/ \E c \in KeyCalls : KeyLookupReturns(c)
                           /\ UNCHANGED <<engineVars, nonKeyVars, storeOpVars>>
  \/ DefaultChanges /\ UNCHANGED <<engineVars, nonKeyVars, storeOpVars>>

SpecKey == InitKey /\ [][NextKey]_vars

\* The conversation store alone: calls of its functions in any interleaving, by user
\* u, by another user w or without a signed-in user, on a store that holds two
\* conversations of u, each with a message.
nonStoreVars == <<engineVars, keyOpVars, keyVars, messages, isProcessing, isTyping,
                  apiKeyModalOpen, currentResponseId, conversationId, loading, turns,
                  nTurns, prompted, navs, conversationHistory>>

\* The store at the start: two conversations of user u, each with one message.
InitConvRows ==
  (1 :> [title |-> <<"N">>, owner |-> "u", updated |-> 3]) @@
  (2 :> [title |-> <<"N">>, owner |-> "u", updated |-> 4])

InitMsgRows ==
  <<MessageRow(1, "user", <<"m">>, 0, 3), MessageRow(2, "user", <<"m">>, 0, 4)>>

InitStore ==
  /\ EngineIdle
  /\ KeyOpsIdle
  /\ UiInit
  /\ GEMINI_API_KEY = <<>> /\ storedKey = <<>> /\ defaultKey = <<>>
  /\ user \in {"none", "u", "w"}
  /\ convRows = InitConvRows
  /\ nextConvId = 3
  /\ msgRows = InitMsgRows
  /\ clock = 4
  /\ ops = [o \in Ops |-> FreshOp]
  /\ nOps = 0
  /\ HistoryEmpty

NextStore ==
  \/ StoreInvoke /\ UNCHANGED nonStoreVars
  \/ \E o \in Ops : CreateAnswers(o) /\ UNCHANGED nonStoreVars
  \/ \E o \in Ops : ListAnswers(o) /\ UNCHANGED nonStoreVars
  \/ \E o \in Ops : FetchAnswers(o) /\ UNCHANGED nonStoreVars
  \/ \E o \in Ops : RenameAnswers(o) /\ UNCHANGED nonStoreVars
  \/ \E o \in Ops : SaveInserts(o) /\ UNCHANGED nonStoreVars
  \/ \E o \in Ops : SaveBumps(o) /\ UNCHANGED nonStoreVars
  \/ \E o \in Ops : DeleteFirst(o) /\ UNCHANGED nonStoreVars
  \/ \E o \in Ops : DeleteSecond(o) /\ UNCHANGED nonStoreVars

SpecStore == InitStore /\ [][NextStore]_vars

\* ------------------------------------------------------------ engine claims
ChunkTexts == [k \in 1..Len(chunks) |-> chunks[k].text]

SelectBy(by) == SelectSeq(chunks, LAMBDA c : c.by = by)

LoopTexts == [k \in 1..Len(SelectBy("loop")) |-> SelectBy("loop")[k].text]

\* The text payloads the stream carries in records it completes by position p, in
\* stream order.
RECURSIVE TextsUpTo(_, _)
TextsUpTo(k, p) ==
  IF k = 0 THEN <<>>
  ELSE TextsUpTo(k - 1, p) \o
       (IF layout[k].text # <<>> /\ layout[k].last <= p /\ layout[k].last <= Len(stream)
        THEN <<layout[k].text>> ELSE <<>>)

\* Everything handed to onChunk when the whole stream s arrives in one read.
OneRead(s) ==
  LET r == IF s = <<>> THEN [buf |-> <<>>, out |-> <<>>] ELSE ProcessChunk(<<>>, s)
      salv == Salvaged(r.buf, Flatten(r.out))
  IN  r.out \o salv \o
      (IF NeedsFallback(Flatten(r.out \o salv)) THEN <<fallbackResponse>> ELSE <<>>)

\* The stream stops after the comma of a separator, before its newline.
EndsInComma == stream # <<>> /\ stream[Len(stream)] = ","

\* C1: however the reads split a stream of records separated by an optional comma
\* plus newline (whole, or cut anywhere but inside a separator), once the engine has
\* returned the concatenation of all fragments handed to onChunk equals the
\* concatenation obtained when the whole stream arrives in a single read.
C1_ChunkingInvariance ==
  (enginePc = "done" /\ ~EndsInComma) =>
    Flatten(ChunkTexts) = Flatten(OneRead(stream))

C1_Witness ==
  /\ enginePc = "done"
  /\ splitSeen
  /\ Len(SelectBy("loop")) = 2

\* C2 as stated: after every pass the parse loop has handed to onChunk exactly the
\* text payloads of the records completed by the characters read so far, once each:
\* a record is emitted on the pass of the read that completes it, none of a record
\* still incomplete, none twice.
C2_ExactlyOnce == LoopTexts = TextsUpTo(Len(layout), pos)

\* The text payloads, in stream order, of the completed records that the buffer
\* shows at position p followed by something other than a lone comma.
RECURSIVE DecodableUpTo(_, _)
DecodableUpTo(k, p) ==
  IF k = 0 THEN <<>>
  ELSE DecodableUpTo(k - 1, p) \o
       (IF /\ layout[k].text # <<>>
           /\ layout[k].last <= p /\ layout[k].last <= Len(stream)
           /\ ~(p = layout[k].last + 1 /\ stream[p] = ",")
        THEN <<layout[k].text>> ELSE <<>>)

\* C2 amended: the parse loop hands each text payload to onChunk at most once,
\* in stream order and never before the record's last character was read; and it
\* has handed it over by the end of every pass whose read does not stop between the
\* comma and the newline of the record's separator (a read that stops there defers
\* the record to the pass that brings the newline).
C2_ExactlyOnceDeferred ==
  /\ Len(DecodableUpTo(Len(layout), pos)) <= Len(LoopTexts)
  /\ Len(LoopTexts) <= Len(TextsUpTo(Len(layout), pos))
  /\ LoopTexts = SubSeq(TextsUpTo(Len(layout), Len(stream)), 1, Len(LoopTexts))

C2_Witness ==
  /\ splitSeen
  /\ Len(layout) = 2
  /\ layout[2].last <= pos
  /\ LoopTexts = <<layout[1].text, layout[2].text>>
  /\ layout[1].text = layout[2].text

\* A read has stopped between the comma and the newline after a record that the
\* loop has not emitted yet.
C2_WitnessDeferred ==
  /\ enginePc = "reading"
  /\ pos < Len(stream)
  /\ stream[pos + 1] = NL
  /\ Len(LoopTexts) < Len(TextsUpTo(Len(layout), pos))

\* C3: the k-th callback of the parse loop carries the text of the k-th record with
\* a text payload in the stream: one callback per record, in stream order.
C3_ArrivalOrder ==
  /\ Len(LoopTexts) <= Len(TextsUpTo(Len(layout), Len(stream)))
  /\ \A k \in 1..Len(LoopTexts) :
       LoopTexts[k] = TextsUpTo(Len(layout), Len(stream))[k]

C3_Witness ==
  /\ Len(LoopTexts) = 2
  /\ LoopTexts[1] # LoopTexts[2]
  /\ splitSeen

\* C4: when the engine has returned, the fallback notice was handed to onChunk
\* exactly once if neither the parse loop nor the salvage pass handed over a
\* fragment, and not at all otherwise; and some callback carried non-empty text.
C4_FallbackIffNothing ==
  enginePc = "done" =>
    /\ Len(SelectBy("fallback")) =
         (IF SelectBy("loop") = <<>> /\ SelectBy("salvage") = <<>> THEN 1 ELSE 0)
    /\ \E k \in 1..Len(chunks) : chunks[k].text # <<>>

C4_WitnessFallback ==
  /\ enginePc = "done"
  /\ Len(SelectBy("fallback")) = 1
  /\ stream # <<>>

\* The non-empty values of the text fields the stream holds whole (closing quote
\* included), in stream order.
RECURSIVE TextFieldValues(_)
TextFieldValues(k) ==
  IF k = 0 THEN <<>>
  ELSE TextFieldValues(k - 1) \o
       (IF layout[k].text # <<>> /\ layout[k].last - 1 <= Len(stream)
        THEN <<layout[k].text>> ELSE <<>>)

\* C5: when the engine has returned and the parse loop emitted nothing while the
\* buffer holds text fields with non-empty values, the salvage pass has handed
\* exactly those values to onChunk, one callback each in buffer order, and the
\* fallback notice was not emitted.
C5_SalvageEmitsValues ==
  (/\ enginePc = "done"
   /\ SelectBy("loop") = <<>>
   /\ TextFieldValues(Len(layout)) # <<>>) =>
    /\ [k \in 1..Len(SelectBy("salvage")) |-> SelectBy("salvage")[k].text]
         = TextFieldValues(Len(layout))
    /\ SelectBy("fallback") = <<>>

\* C31: when the parse loop has emitted a fragment and the whole stream has been
\* read, the call ends with no onChunk call of the salvage pass or of the fallback:
\* every call is one of the parse loop, and responseText is what the loop emitted,
\* whatever the buffer still holds.
C31_NoSalvageAfterEmit ==
  (SelectBy("loop") # <<>> /\ pos = Len(stream) /\ enginePc \in {"done", "failed"}) =>
    /\ SelectBy("salvage") = <<>>
    /\ SelectBy("fallback") = <<>>
    /\ responseText = Flatten(LoopTexts)

\* The engine has returned after the loop emitted a fragment, with a truncated record
\* in the buffer whose text field the salvage pattern matches.
C31_Witness ==
  /\ enginePc = "done"
  /\ SelectBy("loop") # <<>>
  /\ TextMatches(fullJsonStr, 1) # <<>>

\* What the engine has still to do: the phases before it and, while it reads, the
\* characters the reader has not delivered.
Remaining ==
  CASE enginePc = "start" -> Len(stream) + 3
    [] enginePc = "requesting" -> Len(stream) + 2
    [] enginePc = "reading" -> Len(stream) - pos + 1
    [] OTHER -> 0

\* The reader signals done and the engine takes it.
ReaderDone == StreamEnd /\ UNCHANGED <<sessionVars, auxVars>>

\* C25: on every stream that the reader ends, generateStreamingResponse returns or
\* throws after finitely many steps and onChunk calls: while it reads, the reader has
\* characters left to deliver or the engine takes the reader's done, whatever the
\* buffer holds; every step brings the end nearer; and onChunk is called no more
\* often than the stream has records, plus one.
C25_Terminates ==
  /\ [](enginePc = "reading" => (pos < Len(stream) \/ ENABLED ReaderDone))
  /\ [][Remaining' < Remaining]_vars
  /\ [](Len(chunks) <= Len(layout) + 1)

\* The engine has returned with a remainder in the buffer that no pass could decode.
C25_Witness ==
  /\ enginePc = "done"
  /\ fullJsonStr # <<>>
  /\ pos = Len(stream)
  /\ splitSeen

\* The characters of the record whose text payload decodes to text: the frame of
\* four and the payload, a double quote written as two characters.
RecordLen(text) == 4 + Len(text) + Cardinality({k \in 1..Len(text) : text[k] = DQ})

SumRecordLen(calls) ==
  LET F[k \in 0..Len(calls)] ==
        IF k = 0 THEN 0 ELSE F[k - 1] + RecordLen(calls[k].text)
  IN  F[Len(calls)]

\* The characters of s that are no separator and no blank.
NonSeparator(s) == SelectSeq(s, LAMBDA c : c \notin {",", NL, SP})

\* C26: in every pass the buffer loses a prefix only, and apart from separators and
\* blanks that prefix holds the characters of the fragments emitted in the pass and
\* nothing else: no character of a fragment that was not emitted is removed.
C26_BufferInvariant ==
  [][(enginePc = "reading" /\ pos' > pos) =>
       LET whole == fullJsonStr \o SubSeq(stream, pos + 1, pos')
           cut == Len(whole) - Len(fullJsonStr')
           emitted == SubSeq(chunks', Len(chunks) + 1, Len(chunks'))
       IN  /\ cut >= 0
           /\ fullJsonStr' = SubSeq(whole, cut + 1, Len(whole))
           /\ Len(NonSeparator(SubSeq(whole, 1, cut))) = SumRecordLen(emitted)]_vars

\* The texts of the fragments of a pass that decode with a text payload, in order.
RECURSIVE DecodedTexts(_)
DecodedTexts(frags) ==
  IF frags = <<>> THEN <<>>
  ELSE LET parsed == ParseRecordText(Trim(Head(frags)))
       IN  (IF parsed.ok THEN <<parsed.text>> ELSE <<>>) \o DecodedTexts(Tail(frags))

\* C27: in a pass, a fragment that fails to decode gets no onChunk call and does not
\* end the engine, every fragment of the pass that decodes with a text is emitted, in
\* order, and the fragment that failed is still in the buffer for the next read.
C27_FailedFragmentRetried ==
  [][(enginePc = "reading" /\ pos' > pos) =>
       LET whole == fullJsonStr \o SubSeq(stream, pos + 1, pos')
           frags == SplitObjects(whole)
           emitted == SubSeq(chunks', Len(chunks) + 1, Len(chunks'))
       IN  /\ enginePc' = "reading"
           /\ [k \in 1..Len(emitted) |-> emitted[k].text] = DecodedTexts(frags)
           /\ \A i \in 1..Len(frags) :
                ~Decodes(Trim(frags[i])) =>
                  IndexOf(fullJsonStr', Trim(frags[i])) # -1]_vars

\* C11: when no credential resolves, generateStreamingResponse throws without calling
\* the generation endpoint and without any onChunk call.
C11_NoRequestWithoutKey ==
  (enginePc \in {"requesting", "reading", "done", "failed"} /\ GEMINI_API_KEY = <<>>) =>
    /\ enginePc = "failed"
    /\ requests = 0
    /\ response = "none"
    /\ chunks = <<>>

C11_Witness ==
  /\ enginePc = "failed"
  /\ GEMINI_API_KEY = <<>>
  /\ stream # <<>>

\* C12: when the endpoint answers with a non-success status or without a body,
\* generateStreamingResponse throws and no onChunk call is made for the request: no
\* fragment, no salvaged text, no fallback text.
C12_NoChunkOnBadResponse ==
  response \in {"status", "nobody"} =>
    /\ enginePc = "failed"
    /\ requests = 1
    /\ pos = 0
    /\ chunks = <<>>

C12_Witness ==
  /\ response \in {"status", "nobody"}
  /\ enginePc = "failed"
  /\ \E k \in 1..Len(layout) : layout[k].text # <<>> /\ layout[k].last <= Len(stream)

\* ----------------------------------------------------------- session claims
\* The call has passed the busy guard and the credential check and has not returned.
Accepted(t) ==
  turns[t].pc \in {"awaitCreate", "awaitSaveUser", "awaitTitle", "awaitFetch",
                   "reading", "awaitSaveAi"}

\* The conversation of a turn: the one its closure holds, or the one it created.
TurnConv(t) == IF turns[t].cConv # NoId THEN turns[t].cConv ELSE turns[t].newConv

RowsOf(t, role) ==
  {k \in 1..Len(msgRows) : msgRows[k].turn = t /\ msgRows[k].role = role}

\* C6: at most one accepted submission is in flight at any time.
C6_BusyGuard == Cardinality({t \in Turns : Accepted(t)}) <= 1

\* C7: a submission whose cycle had a failing step has shown a notice by the time
\* it has returned, and when no submission is in flight the controller is Idle
\* (isProcessing and isTyping false).
C7_IdleAndNoticed ==
  /\ \A t \in Turns :
       (turns[t].pc = "done" /\ turns[t].failures # {}) => turns[t].notice
  /\ (\A t \in Turns : turns[t].pc \in {"idle", "done"}) =>
       (~isProcessing /\ ~isTyping)

\* C8: a submission for which no credential resolved has opened the credential
\* prompt and returned, and nothing else came of it: no conversation created, no
\* message in the in-memory list, no row saved, no generation request.
C8_NoKeyNoEffects ==
  \A t \in prompted :
    /\ turns[t].pc = "done"
    /\ apiKeyModalOpen \/ GEMINI_API_KEY # <<>>
    /\ turns[t].newConv = NoId
    /\ ~turns[t].requested
    /\ \A k \in 1..Len(msgRows) : msgRows[k].turn # t
    /\ \A k \in 1..Len(messages) : messages[k].id \notin {UserMsgId(t), ResponseId(t)}

C8_Witness ==
  \E t \in prompted :
    /\ apiKeyModalOpen
    /\ turns[t].pc = "done"
    /\ turns[t].content # <<>>

\* C9: once a turn has called the engine, its user message is a row of the store
\* under the turn's conversation (unless the store refused the insert).
C9_UserSavedBeforeStream ==
  \A t \in Turns :
    (turns[t].requested /\ "saveUser" \notin turns[t].failures) =>
      \E k \in RowsOf(t, "user") :
        msgRows[k] = MessageRow(TurnConv(t), "user", turns[t].content, t,
                                turns[t].uTs)

\* C10: a turn that has returned after its stream completed has saved the assistant
\* message exactly once, under the turn's conversation, with the concatenation of
\* the fragments delivered in the turn as content (unless the store refused the
\* insert).
C10_AssistantSavedOnce ==
  \A t \in Turns :
    (turns[t].pc = "done" /\ turns[t].completed /\ "saveAi" \notin turns[t].failures) =>
      /\ Cardinality(RowsOf(t, "assistant")) = 1
      /\ \A k \in RowsOf(t, "assistant") :
           msgRows[k] = MessageRow(TurnConv(t), "assistant",
                                   Flatten(turns[t].fragments), t, turns[t].aTs)

\* C17: when the first message of a new session was submitted and its turn has
\* completed, the conversation created for it holds the title derived from that
\* message.
C17_FirstMessageTitled ==
  \A t \in Turns :
    (/\ turns[t].pc = "done" /\ turns[t].completed
     /\ turns[t].cConv = NoId /\ turns[t].cEmpty
     /\ turns[t].newConv \in DOMAIN convRows
     /\ "title" \notin turns[t].failures) =>
      convRows[turns[t].newConv].title = TitleOf(turns[t].content)

\* The steps of a turn in which the generation stream fails.
StreamFailures == {"request", "read"}

StreamFailed(t) == turns[t].failures \cap StreamFailures # {}

\* C22: a turn whose generation stream failed has returned without an assistant row
\* in the store, and the step in which the stream fails leaves every stored
\* conversation and message as it was.
C22_FailedStreamKeepsStore ==
  /\ [](\A t \in Turns :
         StreamFailed(t) => (turns[t].pc = "done" /\ RowsOf(t, "assistant") = {}))
  /\ [][\A t \in Turns :
         (~StreamFailed(t) /\ StreamFailed(t)') =>
           (msgRows' = msgRows /\ convRows' = convRows)]_vars

C22_Witness ==
  \E t \in Turns :
    /\ "read" \in turns[t].failures
    /\ turns[t].fullResponse # <<>>
    /\ turns[t].cConv # NoId
    /\ RowsOf(t, "user") # {}

\* C23: when saveMessage fails for the user message of a turn, the turn shows a
\* notice, opens no generation stream and returns.
C23_NoStreamAfterFailedSave ==
  \A t \in Turns :
    "saveUser" \in turns[t].failures =>
      /\ ~turns[t].requested
      /\ turns[t].notice

\* C24: the request of a turn carries, labeled by role and in their order, the last
\* HistoryWindow messages of the conversation as it stood when the turn was submitted
\* (all of them when there are fewer).
C24_ContextHoldsPriorTurns ==
  \A t \in Turns :
    turns[t].requested =>
      turns[t].context = ConversationContext(RecentMessages(turns[t].prior))

\* The turn t receives fragments in this step.
Delivers(t) == Len(turns'[t].fragments) > Len(turns[t].fragments)

\* C28: a step in which a turn's callback runs leaves the message list as long as it
\* was, every message other than the one with the turn's response id as it was, and
\* that message with its id and role and with the concatenation of all fragments
\* received so far as its content.
C28_CallbackFrame ==
  [][\A t \in Turns :
       Delivers(t) =>
         /\ Len(messages') = Len(messages)
         /\ \A k \in 1..Len(messages) :
              IF messages[k].id = ResponseId(t)
              THEN messages'[k] = [messages[k] EXCEPT
                                     !.content = Flatten(turns'[t].fragments)]
              ELSE messages'[k] = messages[k]]_vars

\* Fragments have arrived in two callbacks for the second message pair of the list.
C28_Witness ==
  \E t \in Turns :
    /\ Len(turns[t].fragments) >= 2
    /\ Len(messages) >= 4
    /\ messages[Len(messages)].id = ResponseId(t)
    /\ messages[Len(messages)].content = Flatten(turns[t].fragments)

\* C29: once the active conversation was deleted while a turn's stream was in flight,
\* every later step in which that turn receives fragments leaves the message list as
\* it is.
C29_TornDownNoOp ==
  [][\A t \in Turns :
       (turns[t].tornAt >= 0 /\ Delivers(t)) => messages' = messages]_vars

\* Fragments have arrived after the teardown.
C29_Witness ==
  \E t \in Turns :
    /\ turns[t].tornAt >= 0
    /\ Len(turns[t].fragments) > turns[t].tornAt
    /\ turns[t].pc = "done"

\* C30: while an accepted submission has not returned, a conversation selected or a
\* new chat started leaves the active conversation id and the message list as they
\* are.
C30_NoNavigationInTurn ==
  [][((\E t \in Turns : Accepted(t)) /\ navs' # navs) =>
       (conversationId' = conversationId /\ messages' = messages)]_vars

\* --------------------------------------------------------- credential claims
DoneKeyCalls == {c \in KeyCalls : keyCalls[c].pc = "done"}

\* The first non-empty value among the in-memory key at the call, the default key the
\* lookup answered and the stored key, or last when all three are empty.
FirstKey(call, last) ==
  IF call.mem0 # <<>> THEN call.mem0
  ELSE IF call.dbKey # <<>> THEN call.dbKey
  ELSE IF call.stored # <<>> THEN call.stored
  ELSE last

\* C18 (as stated): getApiKey returns a non-empty in-memory value without a lookup;
\* otherwise the default key if the lookup finds one; otherwise the stored key;
\* otherwise the empty string; a non-empty result is cached in memory.
C18_ResolutionOrder ==
  \A c \in DoneKeyCalls :
    /\ keyCalls[c].looked <=> keyCalls[c].mem0 = <<>>
    /\ keyCalls[c].result = FirstKey(keyCalls[c], <<>>)
    /\ keyCalls[c].result # <<>> => keyCalls[c].cached = keyCalls[c].result

\* C18 (amended): as above, but when neither the lookup nor the storage holds a key the
\* call returns the in-memory value of that moment, which a concurrent getApiKey may
\* have filled while this call was waiting.
C18_ResolutionOrderAtReturn ==
  \A c \in DoneKeyCalls :
    /\ keyCalls[c].looked <=> keyCalls[c].mem0 = <<>>
    /\ keyCalls[c].result = FirstKey(keyCalls[c], keyCalls[c].mem1)
    /\ keyCalls[c].result # <<>> => keyCalls[c].cached = keyCalls[c].result

C18_Witness ==
  \E c \in DoneKeyCalls :
    /\ keyCalls[c].mem0 = <<>>
    /\ keyCalls[c].dbKey = <<>>
    /\ keyCalls[c].stored = <<>>
    /\ keyCalls[c].result = <<"d">>

\* C19: after setApiKey(k) the stored key and the in-memory key are k, and every
\* getApiKey called after it returns k, until the next setApiKey.
C19_SetKeyStays ==
  /\ lastSet # <<>> => (storedKey = lastSet /\ GEMINI_API_KEY = lastSet)
  /\ \A c \in DoneKeyCalls :
       keyCalls[c].set0 # <<>> => keyCalls[c].result = keyCalls[c].set0

\* -------------------------------------------------------------- store claims
DoneOps(kind) == {o \in Ops : ops[o].kind = kind /\ ops[o].pc = "done"}

C14_DeletedFetchEmpty ==
  \A f \in DoneOps("fetch") :
    (ops[f].deleted /\ ~ops[f].fault) =>
      /\ ops[f].outcome = "ok"
      /\ ops[f].result = <<>>
      /\ ops[f].notice = "none"

C14_Witness ==
  \E f \in DoneOps("fetch") :
    /\ ops[f].deleted
    /\ ~ops[f].fault
    /\ msgRows # <<>>

Before(a, b, list) ==
  \E i, j \in 1..Len(list) : i < j /\ list[i] = a /\ list[j] = b

\* C15: after updateConversationTitle or saveMessage has returned true for
\* conversation A, the list of the owner's conversations has A before every
\* conversation whose updated_at is older than that call.
C15_TouchedListedFirst ==
  \A o \in DoneOps("rename") \cup DoneOps("save") :
    LET a == ops[o].id
    IN  (ops[o].outcome = "ok" /\ a \in DOMAIN convRows) =>
          \A b \in DOMAIN convRows \ {a} :
            (convRows[b].owner = convRows[a].owner /\ convRows[b].updated < ops[o].t)
              => Before(a, b, UserConversations(convRows[a].owner))

\* C16: the derived title is the first message when it has at most TitleLimit units,
\* its first TitleLimit units followed by three dots otherwise, and that title is what
\* the store holds after the rename.
C16_TitleTruncation ==
  \A o \in Ops :
    (ops[o].kind = "rename" /\ ops[o].pc # "idle") =>
      LET c == ops[o].content
          title == ops[o].title
      IN  /\ Len(c) <= 30 => title = c
          /\ Len(c) > 30 =>
               /\ Len(title) = 33
               /\ \A i \in 1..30 : title[i] = c[i]
               /\ \A i \in 31..33 : title[i] = "."
          /\ (/\ ops[o].pc = "done" /\ ops[o].outcome = "ok"
              /\ ops[o].id \in DOMAIN convRows
              /\ \A q \in Ops \ {o} : ~(ops[q].kind = "rename" /\ ops[q].id = ops[o].id))
               => convRows[ops[o].id].title = title

C16_Witness ==
  \E o, q \in DoneOps("rename") :
    /\ ops[o].outcome = "ok" /\ ops[q].outcome = "ok"
    /\ ops[o].id # ops[q].id
    /\ Len(ops[o].content) = 30
    /\ Len(ops[q].content) = 31
    /\ convRows[ops[q].id].title # ops[q].content

\* C20: a store function called without a signed-in user makes no store call and
\* ends with the outcome that tells the missing identity.
C20_AuthRequired ==
  \A o \in Ops :
    (ops[o].kind # "none" /\ ~ops[o].authed) =>
      /\ ops[o].calls = 0
      /\ ops[o].pc = "done" => ops[o].outcome = "auth"

\* C21: through the store's functions a signed-in user reads, extends, renames and
\* deletes only conversations of their own: a conversation of another user keeps its
\* row and its messages, and a fetch of its messages returns none of them.
C21_OwnerOnly ==
  \A c \in DOMAIN InitConvRows :
    (user # "none" /\ InitConvRows[c].owner # user) =>
      /\ c \in DOMAIN convRows
      /\ convRows[c] = InitConvRows[c]
      /\ SelectSeq(msgRows, LAMBDA r : r.conv = c) =
           SelectSeq(InitMsgRows, LAMBDA r : r.conv = c)
      /\ \A f \in DoneOps("fetch") : ops[f].id = c => ops[f].result = <<>>

\* C32: a deleteConversation that returned true made both store calls and neither
\* failed nor was refused, and the conversation is gone; one whose deletion of the
\* messages failed made no second call, returned false and showed the error; and a
\* conversation row is missing only when a deleteConversation of it returned true, so
\* none is removed by a call whose deletion of the messages failed.
C32_DeleteAllOrNothing ==
  /\ \A d \in DoneOps("delete") :
       /\ ops[d].outcome \in {"ok", "failed"}
       /\ ops[d].outcome = "ok" =>
            /\ ops[d].calls = 2
            /\ ~ops[d].fault /\ ~ops[d].blocked
            /\ ops[d].notice = "none"
            /\ ops[d].id \notin DOMAIN convRows
       /\ ops[d].calls = 1 =>
            /\ ops[d].outcome = "failed"
            /\ ops[d].fault
            /\ ops[d].notice = "error"
  /\ \A c \in 1..(nextConvId - 1) :
       c \notin DOMAIN convRows =>
         \E d \in DoneOps("delete") : ops[d].id = c /\ ops[d].outcome = "ok"

\* One deleteConversation failed at the deletion of the messages and left the
\* conversation and its messages in place; another returned true.
C32_Witness ==
  \E d, e \in DoneOps("delete") :
    /\ ops[d].calls = 1 /\ ops[d].outcome = "failed"
    /\ ops[d].id \in DOMAIN convRows
    /\ \E k \in 1..Len(msgRows) : msgRows[k].conv = ops[d].id
    /\ ops[e].outcome = "ok"

====
